---- MODULE Spec2Model ----
(***************************************************************************)
(* A model of java_type_checker/expressions.py: the expression AST of a    *)
(* small Java type checker, with static_type() and check_types() computed  *)
(* as the source computes them.  The type universe (types.py) is the       *)
(* collaborator the checker calls into; it is described by the interface   *)
(* of section 6 of the specification.                                      *)
(***************************************************************************)
EXTENDS Integers, Sequences, FiniteSets, TLC

VARIABLES
    root,       \* the expression tree held by the caller
    types,      \* the type universe: type name -> its description
    outcome,    \* what the last check_types() on root ended in
    first,      \* what the first check_types() on root ended in
    stype       \* what the last static_type() on root returned

vars == <<root, types, outcome, first, stype>>

-----------------------------------------------------------------------------
(* Bounds of the model *)

\* Largest number of AST nodes in a tree (every expression object counts 1,
\* the lhs variable of an assignment is part of the assignment node).
MaxNodes == 4

-----------------------------------------------------------------------------
(* The type universe: JavaBuiltInTypes and the object types of the program  *)

\* The value Python's None: what static_type() of JavaExpression returns.
None == "<None>"

\* JavaBuiltInTypes.NULL is the type named "null".
NULL == "null"

Sig(params) == [parameter_types |-> params]
Ctor(params) == [param_types |-> params]

\* int is primitive; Object <- Shape <- Rect; Shape is abstract.
\* Rect(Object, int) is the constructor of Rect; Rect has fit(Shape, int) and
\* scale(int).
Universe ==
    [t \in {"int", "null", "Object", "Shape", "Rect"} |->
      CASE t = "int" ->
             [name |-> "int", is_object_type |-> FALSE, is_instantiable |-> FALSE,
              direct_supertypes |-> {}, constructor |-> Ctor(<<>>),
              methods |-> <<>>]
        [] t = "null" ->
             [name |-> "null", is_object_type |-> FALSE, is_instantiable |-> FALSE,
              direct_supertypes |-> {}, constructor |-> Ctor(<<>>),
              methods |-> <<>>]
        [] t = "Object" ->
             [name |-> "Object", is_object_type |-> TRUE, is_instantiable |-> TRUE,
              direct_supertypes |-> {}, constructor |-> Ctor(<<>>),
              methods |-> <<>>]
        [] t = "Shape" ->
             [name |-> "Shape", is_object_type |-> TRUE, is_instantiable |-> FALSE,
              direct_supertypes |-> {"Object"}, constructor |-> Ctor(<<>>),
              methods |-> <<>>]
        [] t = "Rect" ->
             [name |-> "Rect", is_object_type |-> TRUE, is_instantiable |-> TRUE,
              direct_supertypes |-> {"Shape"},
              constructor |-> Ctor(<<"Object", "int">>),
              methods |-> [m \in {"fit", "scale"} |->
                             IF m = "fit" THEN Sig(<<"Shape", "int">>)
                             ELSE Sig(<<"int">>)]]]

\* Every type is a subtype of itself, of its supertypes' supertypes, and the
\* NULL type is a subtype of every object (reference) type.
RECURSIVE is_subtype_of(_, _, _)
is_subtype_of(U, t, other) ==
    \/ t = other
    \/ t = NULL /\ U[other].is_object_type
    \/ \E s \in U[t].direct_supertypes : is_subtype_of(U, s, other)

\* method_named: <<signature>> when the type has the method, <<>> (absent) if not.
method_named(U, t, name) ==
    IF name \in DOMAIN U[t].methods THEN <<U[t].methods[name]>> ELSE <<>>

-----------------------------------------------------------------------------
(* The AST: one record shape per subclass of JavaExpression *)

JavaVariable(name, declared_type) ==
    [kind |-> "JavaVariable", name |-> name, declared_type |-> declared_type]

JavaLiteral(value, type) ==
    [kind |-> "JavaLiteral", value |-> value, type |-> type]

\* super().__init__("null", JavaBuiltInTypes.NULL)
JavaNullLiteral ==
    [kind |-> "JavaNullLiteral", value |-> "null", type |-> NULL]

JavaAssignment(lhs, rhs) ==
    [kind |-> "JavaAssignment", lhs |-> lhs, rhs |-> rhs]

JavaMethodCall(receiver, method_name, args) ==
    [kind |-> "JavaMethodCall", receiver |-> receiver,
     method_name |-> method_name, args |-> args]

JavaConstructorCall(instantiated_type, args) ==
    [kind |-> "JavaConstructorCall", instantiated_type |-> instantiated_type,
     args |-> args]

-----------------------------------------------------------------------------
(* The trees the caller may hold *)

\* Variables that appear as the target of an assignment.
LhsVars == {JavaVariable("x", "int"), JavaVariable("s", "Shape")}

\* Expressions without sub-expressions (argument-less constructor calls aside).
Atoms == {JavaLiteral("1", "int"), JavaVariable("r", "Rect"), JavaNullLiteral}

MethodNames == {"fit", "scale", "bar"}

InstantiatedTypes == {"Object", "Shape", "Rect"}

\* The argument lists whose expressions have n nodes in all, given the trees
\* of every size up to n (level[k] holds the trees of k nodes); ArgListsFrom
\* are those whose first argument has at least k nodes.
RECURSIVE ArgLists(_, _), ArgListsFrom(_, _, _)
ArgLists(n, level) ==
    IF n = 0 THEN {<<>>} ELSE ArgListsFrom(n, level, 1)

ArgListsFrom(n, level, k) ==
    IF k > n THEN {}
    ELSE {<<a>> \o rest : a \in level[k], rest \in ArgLists(n - k, level)}
         \cup ArgListsFrom(n, level, k + 1)

\* The method calls of n nodes whose receiver has at least k nodes.
RECURSIVE MethodCallsFrom(_, _, _)
MethodCallsFrom(n, level, k) ==
    IF k > n - 1 THEN {}
    ELSE {JavaMethodCall(rc, m, as) :
             rc \in level[k], m \in MethodNames, as \in ArgLists(n - 1 - k, level)}
         \cup MethodCallsFrom(n, level, k + 1)

\* The expression trees of exactly n nodes, given the smaller ones.
TreesOfSize(n, level) ==
    (IF n = 1 THEN Atoms ELSE {})
    \cup {JavaAssignment(l, r) : l \in LhsVars, r \in (IF n = 1 THEN {} ELSE level[n - 1])}
    \cup MethodCallsFrom(n, level, 1)
    \cup {JavaConstructorCall(t, as) :
            t \in InstantiatedTypes, as \in ArgLists(n - 1, level)}

\* <<trees of 1 node, trees of 2 nodes, ..., trees of n nodes>>
RECURSIVE Levels(_)
Levels(n) ==
    IF n = 0 THEN <<>>
    ELSE LET level == Levels(n - 1)
         IN  Append(level, TreesOfSize(n, level))

\* The trees that can be a child of the root.
TreeLevels == Levels(MaxNodes - 1)

-----------------------------------------------------------------------------
(* What a call ends in: a normal return or the exception raised *)

Returned == [kind |-> "return", msg |-> ""]

Raise(kind, msg) == [kind |-> kind, msg |-> msg]

\* `x.attr` with x = None.
NoneHasNo(attr) ==
    Raise("AttributeError", "'NoneType' object has no attribute '" \o attr \o "'")

\* str.format / f-string conversion of an int to decimal text.
Digit == <<"0", "1", "2", "3", "4", "5", "6", "7", "8", "9">>

RECURSIVE ToStr(_)
ToStr(n) == IF n < 10 THEN Digit[n + 1] ELSE ToStr(n \div 10) \o Digit[(n % 10) + 1]

\* ', '.join(names)
RECURSIVE Join(_)
Join(names) ==
    IF Len(names) = 0 THEN ""
    ELSE IF Len(names) = 1 THEN names[1]
    ELSE names[1] \o ", " \o Join(Tail(names))

-----------------------------------------------------------------------------
(* static_type() *)

RECURSIVE static_type(_)
static_type(e) ==
    CASE e.kind = "JavaVariable" -> e.declared_type
      [] e.kind = "JavaLiteral" -> e.type
      [] e.kind = "JavaNullLiteral" -> NULL
      [] e.kind = "JavaAssignment" -> static_type(e.lhs)
      [] e.kind = "JavaMethodCall" -> None
      [] e.kind = "JavaConstructorCall" -> e.instantiated_type

\* The static types of an argument list, in order.
ArgTypes(args) == [i \in 1..Len(args) |-> static_type(args[i])]

-----------------------------------------------------------------------------
(* check_types() *)

RECURSIVE check_types(_, _)

JavaVariable_check_types(U, e) == Returned

JavaLiteral_check_types(U, e) == Returned

\* Mutant: the subtype test is asked the wrong way round.
JavaAssignment_check_types_Swapped(U, e) ==
    LET lhs_type == static_type(e.lhs)
        rhs_type == static_type(e.rhs)
    IN  IF rhs_type = None THEN NoneHasNo("is_subtype_of")
        ELSE IF ~is_subtype_of(U, lhs_type, rhs_type)
        THEN Raise("JavaTypeMismatchError",
                   "Cannot assign " \o U[rhs_type].name \o " to variable "
                   \o e.lhs.name \o " of type " \o U[lhs_type].name)
        ELSE Returned

JavaAssignment_check_types(U, e) ==
    LET lhs_type == static_type(e.lhs)
        rhs_type == static_type(e.rhs)
    IN  IF rhs_type = None THEN NoneHasNo("is_subtype_of")
        ELSE IF ~is_subtype_of(U, rhs_type, lhs_type)
        THEN Raise("JavaTypeMismatchError",
                   "Cannot assign " \o U[rhs_type].name \o " to variable "
                   \o e.lhs.name \o " of type " \o U[lhs_type].name)
        ELSE Returned

\* The message of the method-argument mismatch: it formats every argument's
\* static type, so an argument without one fails the formatting itself.
MethodMismatch(U, e, receiver_type, method) ==
    LET ats == ArgTypes(e.args)
    IN  IF \E i \in 1..Len(ats) : ats[i] = None THEN NoneHasNo("name")
        ELSE Raise("JavaTypeMismatchError",
                   U[receiver_type].name \o "." \o e.method_name
                   \o "() expects arguments of type ("
                   \o Join([i \in 1..Len(method.parameter_types) |->
                              U[method.parameter_types[i]].name])
                   \o "), but got ("
                   \o Join([i \in 1..Len(ats) |-> U[ats[i]].name]) \o ")")

\* for arg, param_type in zip(self.args, method.parameter_types), from pair i on.
RECURSIVE MethodArgLoop(_, _, _, _, _)
MethodArgLoop(U, e, receiver_type, method, i) ==
    IF i > Len(e.args) THEN Returned
    ELSE LET arg_type == static_type(e.args[i])
         IN  IF arg_type = None THEN NoneHasNo("is_subtype_of")
             ELSE IF ~is_subtype_of(U, arg_type, method.parameter_types[i])
             THEN MethodMismatch(U, e, receiver_type, method)
             ELSE MethodArgLoop(U, e, receiver_type, method, i + 1)

\* The method call once the receiver's static type is known (lines 118-135).
MethodCallTyped(U, e, receiver_type) ==
    LET found == method_named(U, receiver_type, e.method_name)
    IN  IF found = <<>>
        THEN Raise("JavaTypeError",
                   U[receiver_type].name \o " has no method named " \o e.method_name)
        ELSE LET method == found[1]
                 expected_count == Len(method.parameter_types)
                 actual_count == Len(e.args)
             IN  IF actual_count # expected_count
                 THEN Raise("JavaArgumentCountError",
                            "Wrong number of arguments for "
                            \o U[receiver_type].name \o "." \o e.method_name
                            \o "(): expected " \o ToStr(expected_count)
                            \o ", got " \o ToStr(actual_count))
                 ELSE MethodArgLoop(U, e, receiver_type, method, 1)

\* check_types() of the arguments in order, from argument i on.
RECURSIVE ArgsRecurse(_, _, _)
ArgsRecurse(U, e, i) ==
    IF i > Len(e.args) THEN Returned
    ELSE LET r == check_types(U, e.args[i])
         IN  IF r # Returned THEN r ELSE ArgsRecurse(U, e, i + 1)

\* r1 when it is an exception, else r2: two statements in sequence.
Then(r1, r2) == IF r1 # Returned THEN r1 ELSE r2

\* Mutant: a receiver without static type is reported instead of skipped.
JavaMethodCall_check_types_Strict(U, e) ==
    LET receiver_type == static_type(e.receiver)
    IN  IF receiver_type = None
        THEN Raise("JavaTypeError", "Receiver's type is not defined for method call.")
        ELSE MethodCallTyped(U, e, receiver_type)

\* Mutant: the arguments' own check_types() is called after the type tests.
JavaMethodCall_check_types_Recursing(U, e) ==
    LET receiver_type == static_type(e.receiver)
    IN  IF receiver_type = None THEN Returned
        ELSE Then(MethodCallTyped(U, e, receiver_type), ArgsRecurse(U, e, 1))

\* `if not self.receiver.static_type(): return`: a type object is truthy, None
\* is not, so the test of line 115 can never succeed after it.
JavaMethodCall_check_types(U, e) ==
    LET receiver_type == static_type(e.receiver)
    IN  IF receiver_type = None THEN Returned
        ELSE MethodCallTyped(U, e, receiver_type)

\* for arg, param_type in zip(self.args, constructor.param_types), from pair i on.
RECURSIVE CtorArgLoop(_, _, _, _)
CtorArgLoop(U, e, constructor, i) ==
    IF i > Len(e.args) THEN Returned
    ELSE LET arg_type == static_type(e.args[i])
             param_type == constructor.param_types[i]
         IN  IF arg_type = None THEN NoneHasNo("is_subtype_of")
             ELSE IF ~is_subtype_of(U, arg_type, param_type)
             THEN Raise("JavaTypeMismatchError",
                        U[e.instantiated_type].name
                        \o " constructor expects arguments of type "
                        \o U[param_type].name \o ", but got " \o U[arg_type].name)
             ELSE CtorArgLoop(U, e, constructor, i + 1)

\* if not self.instantiated_type.is_instantiable: raise ...
CtorInstantiable(U, e) ==
    IF ~U[e.instantiated_type].is_instantiable
    THEN Raise("JavaIllegalInstantiationError",
               U[e.instantiated_type].name \o " is not instantiable")
    ELSE Returned

\* # Check the argument count
CtorArgCount(U, e) ==
    LET constructor == U[e.instantiated_type].constructor
    IN  IF Len(e.args) # Len(constructor.param_types)
        THEN Raise("JavaArgumentCountError",
                   "Wrong number of arguments for " \o U[e.instantiated_type].name
                   \o " constructor: expected " \o ToStr(Len(constructor.param_types))
                   \o ", got " \o ToStr(Len(e.args)))
        ELSE Returned

\* # Check the argument types
CtorArgTypes(U, e) == CtorArgLoop(U, e, U[e.instantiated_type].constructor, 1)

\* # Recursively check the types of all arguments
CtorRecurse(U, e) == ArgsRecurse(U, e, 1)

\* Mutant: the argument count is compared before the type is found abstract.
JavaConstructorCall_check_types_CountFirst(U, e) ==
    Then(CtorArgCount(U, e),
    Then(CtorInstantiable(U, e),
    Then(CtorArgTypes(U, e), CtorRecurse(U, e))))

\* Mutant: the arguments' own check_types() is never called.
JavaConstructorCall_check_types_Shallow(U, e) ==
    Then(CtorInstantiable(U, e),
    Then(CtorArgCount(U, e), CtorArgTypes(U, e)))

\* Mutant: each argument is checked in depth before the argument types are compared.
JavaConstructorCall_check_types_DepthFirst(U, e) ==
    Then(CtorInstantiable(U, e),
    Then(CtorArgCount(U, e),
    Then(CtorRecurse(U, e), CtorArgTypes(U, e))))

JavaConstructorCall_check_types(U, e) ==
    Then(CtorInstantiable(U, e),
    Then(CtorArgCount(U, e),
    Then(CtorArgTypes(U, e), CtorRecurse(U, e))))

\* Dynamic dispatch on the class of the node.
check_types(U, e) ==
    CASE e.kind = "JavaVariable" -> JavaVariable_check_types(U, e)
      [] e.kind = "JavaLiteral" -> JavaLiteral_check_types(U, e)
      [] e.kind = "JavaNullLiteral" -> JavaLiteral_check_types(U, e)
      [] e.kind = "JavaAssignment" -> JavaAssignment_check_types(U, e)
      [] e.kind = "JavaMethodCall" -> JavaMethodCall_check_types(U, e)
      [] e.kind = "JavaConstructorCall" -> JavaConstructorCall_check_types(U, e)

-----------------------------------------------------------------------------
(* The caller: builds a tree, then calls check_types() and static_type() on it *)

NotCalled == [kind |-> "<not called>", msg |-> ""]

NotAsked == "<not asked>"

\* The builder constructs the root bottom-up with one of the constructors.
InitRoot ==
    \/ root \in Atoms
    \/ \E n \in 1..(MaxNodes - 1) :
         \E l \in LhsVars, r \in TreeLevels[n] : root = JavaAssignment(l, r)
    \/ \E k \in 1..(MaxNodes - 1) :
         \E rc \in TreeLevels[k], m \in MethodNames, n \in 0..(MaxNodes - 1 - k) :
            \E as \in ArgLists(n, TreeLevels) : root = JavaMethodCall(rc, m, as)
    \/ \E t \in InstantiatedTypes, n \in 0..(MaxNodes - 1) :
         \/ n = 0 /\ root = JavaConstructorCall(t, <<>>)
         \/ \E k \in 1..n :
              \E a \in TreeLevels[k], rest \in ArgLists(n - k, TreeLevels) :
                 root = JavaConstructorCall(t, <<a>> \o rest)

Init ==
    /\ InitRoot
    /\ types = Universe
    /\ outcome = NotCalled
    /\ first = NotCalled
    /\ stype = NotAsked

\* Mutant: the check consumes the argument list of the node it has checked.
CallCheckTypes_Consuming ==
    /\ outcome' = check_types(types, root)
    /\ first' = IF first = NotCalled THEN outcome' ELSE first
    /\ root' = IF root.kind \in {"JavaMethodCall", "JavaConstructorCall"}
               THEN [root EXCEPT !.args = <<>>] ELSE root
    /\ UNCHANGED <<types, stype>>

\* root.check_types(): no field of a node or of the universe is assigned.
CallCheckTypes ==
    /\ outcome' = check_types(types, root)
    /\ first' = IF first = NotCalled THEN outcome' ELSE first
    /\ UNCHANGED <<root, types, stype>>

\* root.static_type()
CallStaticType ==
    /\ stype' = static_type(root)
    /\ UNCHANGED <<root, types, outcome, first>>

Next == CallCheckTypes \/ CallStaticType

Spec == Init /\ [][Next]_vars

-----------------------------------------------------------------------------
(* Vocabulary of the properties *)

Checked == outcome # NotCalled

\* The subtype relation of the universe, written out: reflexive, transitive,
\* with the NULL type below every object type (and below no primitive type).
SubtypePairs ==
    {<<t, t>> : t \in {"int", "null", "Object", "Shape", "Rect"}}
    \cup {<<"Rect", "Shape">>, <<"Rect", "Object">>, <<"Shape", "Object">>,
          <<"null", "Object">>, <<"null", "Shape">>, <<"null", "Rect">>}

\* An absent static type is a subtype of nothing.
Compatible(t, other) == t # None /\ <<t, other>> \in SubtypePairs

\* The kinds of the common JavaTypeError category that expressions.py defines.
TypeErrorKinds ==
    {"JavaTypeError", "JavaTypeMismatchError", "JavaArgumentCountError",
     "JavaIllegalInstantiationError"}

IsAssignment == root.kind = "JavaAssignment"
IsMethodCall == root.kind = "JavaMethodCall"
IsConstructorCall == root.kind = "JavaConstructorCall"

\* The parameter types the method call of root resolves to (<<>> if it has none).
RootMethod == method_named(types, static_type(root.receiver), root.method_name)

\* Every positional argument of root fits the parameter list params.
ArgsFit(params) ==
    \A i \in 1..Len(root.args) : Compatible(static_type(root.args[i]), params[i])

-----------------------------------------------------------------------------
(* C1 *)

\* C1: an Assignment whose rhs has a static type checks successfully exactly
\* when the rhs type is a subtype of the lhs type; otherwise it raises
\* JavaTypeMismatchError naming the rhs type, the lhs variable and the lhs type.
C1_AssignmentIffSubtype ==
    (Checked /\ IsAssignment /\ static_type(root.rhs) # None) =>
        IF Compatible(static_type(root.rhs), root.lhs.declared_type)
        THEN outcome = Returned
        ELSE outcome = Raise("JavaTypeMismatchError",
                             "Cannot assign " \o static_type(root.rhs)
                             \o " to variable " \o root.lhs.name
                             \o " of type " \o root.lhs.declared_type)

\* A supertype value (Object) assigned to a Shape variable has been rejected.
C1_Witness ==
    /\ root = JavaAssignment(JavaVariable("s", "Shape"), JavaConstructorCall("Object", <<>>))
    /\ outcome = Raise("JavaTypeMismatchError", "Cannot assign Object to variable s of type Shape")

-----------------------------------------------------------------------------
(* C2 *)

\* C2: a MethodCall whose receiver has a static type without the named method
\* raises an error of a kind of its own: neither a normal return, nor the bare
\* JavaTypeError, nor one of the three other specializations.
C2_NoSuchMethodIsItsOwnKind ==
    (Checked /\ IsMethodCall /\ static_type(root.receiver) # None /\ RootMethod = <<>>) =>
        /\ outcome.kind \notin TypeErrorKinds \cup {"return", "AttributeError"}
        /\ outcome.msg = static_type(root.receiver) \o " has no method named "
                          \o root.method_name

-----------------------------------------------------------------------------
(* C3 *)

\* C3: a MethodCall that resolves to a signature raises JavaArgumentCountError
\* (expected, actual) when the counts differ, whatever the argument types; with
\* equal counts it raises JavaTypeMismatchError exactly when some argument's
\* static type is not a subtype of its parameter type, and returns otherwise.
C3_MethodArityThenTypes ==
    (Checked /\ IsMethodCall /\ static_type(root.receiver) # None /\ RootMethod # <<>>) =>
        LET params == RootMethod[1].parameter_types
        IN  IF Len(root.args) # Len(params)
            THEN outcome = Raise("JavaArgumentCountError",
                                 "Wrong number of arguments for "
                                 \o static_type(root.receiver) \o "." \o root.method_name
                                 \o "(): expected " \o ToStr(Len(params))
                                 \o ", got " \o ToStr(Len(root.args)))
            ELSE IF ArgsFit(params) THEN outcome = Returned
            ELSE outcome.kind = "JavaTypeMismatchError"

-----------------------------------------------------------------------------
(* C4 *)

\* C4: a MethodCall whose receiver has no static type returns normally, for
\* every method name and every argument list.
C4_UntypedReceiverSucceeds ==
    (Checked /\ IsMethodCall /\ static_type(root.receiver) = None) => outcome = Returned

\* r.bar().fit(1): the receiver is a method call, fit is given one argument.
C4_Witness ==
    /\ root = JavaMethodCall(JavaMethodCall(JavaVariable("r", "Rect"), "bar", <<>>),
                             "fit", <<JavaLiteral("1", "int")>>)
    /\ outcome = Returned

-----------------------------------------------------------------------------
(* C5 *)

\* C5: a ConstructorCall on a type that is not instantiable raises
\* JavaIllegalInstantiationError naming the type, whatever its arguments.
C5_IllegalInstantiationFirst ==
    (Checked /\ IsConstructorCall /\ ~types[root.instantiated_type].is_instantiable) =>
        outcome = Raise("JavaIllegalInstantiationError",
                        root.instantiated_type \o " is not instantiable")

\* new Shape(r.bar(), new Shape()): wrong in every other way as well.
C5_Witness ==
    /\ root = JavaConstructorCall("Shape",
                  <<JavaMethodCall(JavaVariable("r", "Rect"), "bar", <<>>),
                    JavaConstructorCall("Shape", <<>>)>>)
    /\ outcome = Raise("JavaIllegalInstantiationError", "Shape is not instantiable")

-----------------------------------------------------------------------------
(* C6 *)

\* C6: a ConstructorCall on an instantiable type returns normally exactly when
\* the argument count is the parameter count, every argument's static type is
\* a subtype of its parameter type, and check_types() returns normally on
\* every argument.
C6_ConstructorIff ==
    (Checked /\ IsConstructorCall /\ types[root.instantiated_type].is_instantiable) =>
        LET params == types[root.instantiated_type].constructor.param_types
        IN  (outcome = Returned) <=>
               /\ Len(root.args) = Len(params)
               /\ ArgsFit(params)
               /\ \A i \in 1..Len(root.args) : check_types(types, root.args[i]) = Returned

\* new Rect(new Shape(), 1): the first argument has a fitting static type
\* and is itself ill-typed.
C6_Witness ==
    /\ root = JavaConstructorCall("Rect",
                  <<JavaConstructorCall("Shape", <<>>), JavaLiteral("1", "int")>>)
    /\ outcome = Raise("JavaIllegalInstantiationError", "Shape is not instantiable")

-----------------------------------------------------------------------------
(* C7 *)

\* C7: check_types() ends in a normal return or in an error of the JavaTypeError
\* category, also when a sub-expression has no static type.
C7_OnlyTypeErrors ==
    Checked => outcome.kind \in TypeErrorKinds \cup {"return"}

-----------------------------------------------------------------------------
(* C8 *)

\* The constructor's message for argument i not fitting its parameter.
CtorMismatch(i) ==
    Raise("JavaTypeMismatchError",
          root.instantiated_type \o " constructor expects arguments of type "
          \o types[root.instantiated_type].constructor.param_types[i]
          \o ", but got " \o static_type(root.args[i]))

Least(S) == CHOOSE i \in S : \A j \in S : i <= j

\* C8 as stated: when the first argument of a two-argument constructor call is
\* ill-typed inside (with a fitting static type) and the second argument's
\* static type does not fit, the error reported is the one from inside the
\* first argument.
C8_DepthFirstErrorWins ==
    LET params == types[root.instantiated_type].constructor.param_types
    IN  (/\ Checked /\ IsConstructorCall
         /\ types[root.instantiated_type].is_instantiable
         /\ Len(root.args) = 2 /\ Len(params) = 2
         /\ Compatible(static_type(root.args[1]), params[1])
         /\ check_types(types, root.args[1]) # Returned
         /\ static_type(root.args[2]) # None
         /\ ~Compatible(static_type(root.args[2]), params[2]))
        => outcome = check_types(types, root.args[1])

\* C8 amended: in a ConstructorCall on an instantiable type with the right
\* argument count, the static types of all arguments are compared, left to
\* right, before check_types() is called on any argument: if some argument's
\* static type does not fit, the error is the JavaTypeMismatchError of the
\* leftmost such argument (when that argument has a static type), however
\* ill-typed the arguments before it are inside; otherwise the error is the one
\* of the leftmost argument whose own check_types() fails.
C8_TypesBeforeRecursion ==
    LET params == types[root.instantiated_type].constructor.param_types
    IN  (/\ Checked /\ IsConstructorCall
         /\ types[root.instantiated_type].is_instantiable
         /\ Len(root.args) = Len(params))
        => LET unfit == {i \in 1..Len(root.args) :
                           ~Compatible(static_type(root.args[i]), params[i])}
               failing == {i \in 1..Len(root.args) :
                             check_types(types, root.args[i]) # Returned}
           IN  IF unfit # {}
               THEN static_type(root.args[Least(unfit)]) # None
                       => outcome = CtorMismatch(Least(unfit))
               ELSE IF failing # {}
               THEN outcome = check_types(types, root.args[Least(failing)])
               ELSE outcome = Returned

\* new Rect(new Shape(), null): the first argument is ill-typed inside, the
\* second has the wrong static type, and the second is what is reported.
C8_Witness ==
    /\ root = JavaConstructorCall("Rect",
                  <<JavaConstructorCall("Shape", <<>>), JavaNullLiteral>>)
    /\ outcome = Raise("JavaTypeMismatchError",
                       "Rect constructor expects arguments of type int, but got null")

-----------------------------------------------------------------------------
(* C9 *)

-----------------------------------------------------------------------------
(* C10 *)

\* A well-typed expression of the same static type as c (for an absent static
\* type: a method call, the only kind of expression without one).
Stub(c) ==
    IF static_type(c) = None
    THEN JavaMethodCall(JavaNullLiteral, "bar", <<>>)
    ELSE JavaVariable("v", static_type(c))

\* C10: check_types() of an Assignment or a MethodCall ends as it does with
\* every direct child replaced by another expression of the same static type,
\* so an ill-typed child does not make it fail; an ill-typed argument of a
\* ConstructorCall on an instantiable type does make that call fail.
C10_DirectTypesOnly ==
    /\ (Checked /\ IsAssignment) =>
          outcome = check_types(types, JavaAssignment(root.lhs, Stub(root.rhs)))
    /\ (Checked /\ IsMethodCall) =>
          outcome = check_types(types,
                       JavaMethodCall(Stub(root.receiver), root.method_name,
                                      [i \in 1..Len(root.args) |-> Stub(root.args[i])]))
    /\ (/\ Checked /\ IsConstructorCall
        /\ types[root.instantiated_type].is_instantiable
        /\ \E i \in 1..Len(root.args) : check_types(types, root.args[i]) # Returned)
       => outcome # Returned

\* r.fit(new Shape(), 1): the first argument is an illegal instantiation whose
\* static type fits, and the call is accepted.
C10_Witness ==
    /\ root = JavaMethodCall(JavaVariable("r", "Rect"), "fit",
                  <<JavaConstructorCall("Shape", <<>>), JavaLiteral("1", "int")>>)
    /\ outcome = Returned

====
